---- MODULE Spec2Model ----
(***************************************************************************)
(* Model of keshavchand/downloader (src/main.go): a concurrent HTTP range  *)
(* downloader.  main resolves the resource size, opens the destination     *)
(* file, starts one aggregator goroutine and concurrencyLevel worker       *)
(* goroutines.  Each worker claims chunk indices from the shared counter   *)
(* partCount with an atomic add, GETs the byte range of the chunk and      *)
(* copies the body into the file at the range's start offset, then sends   *)
(* a Status on a channel of capacity 1.  main's deferred calls run in      *)
(* reverse order: wg.Wait, close(status), file.Close, and the process      *)
(* ends when main returns.                                                 *)
(*                                                                         *)
(* Download copies whatever body the server sends: it checks neither the   *)
(* status code nor the length, so the body of a response is an input of    *)
(* the model, not the requested range.                                     *)
(*                                                                         *)
(* uint64 values are modelled as naturals: within the bounds below every   *)
(* product partCount * chunkSize stays far below 2^64, so no operation of  *)
(* the model wraps.                                                        *)
(***************************************************************************)
EXTENDS Integers, Naturals, Sequences, FiniteSets, Bags, TLC

\* ---------------------------------------------------------------- bounds
MaxSize == 3
MaxChunk == 2
MaxConc == 3

\* capacity of the status channel: make(chan Status, 1)
StatusCap == 1

Workers == 0 .. (MaxConc - 1)
NoChunk == -1

VARIABLES
    chunkSize,        \* var chunkSize uint64 (fixed for the run)
    concurrencyLevel, \* -conc flag
    size,             \* result of GetFileSize
    pcMain,           \* position of main
    spawned,          \* loop variable i of the worker-start loop
    wg,               \* sync.WaitGroup counter
    fileState,        \* "unopened", "open", "closed"
    status,           \* buffered content of the status channel
    statusClosed,     \* close(status) has run
    partCount,        \* the shared allocation cursor
    pc,               \* position of each worker goroutine; "done" after a
                      \* return at line 134, "failed" after an error return
    chunk,            \* chunk index a worker holds (its local partCount)
    off,              \* bytes the worker's OffsetWriter has written so far
    body,             \* length of the response body the worker is copying
    pcAgg,            \* position of the aggregator goroutine
    aggS,             \* the aggregator's loop variable s (s.Downloaded)
    totalDownloaded,  \* aggregator's running total
    complete,         \* number of "Download complete" lines printed
    allocs,           \* bag of <<index, ok>>: results of allocation requests
    gets,             \* bag of chunk indices for which client.Do was called
    served,           \* set of <<index, length>>: response bodies received
    writes,           \* bag of <<offset, index>>: bytes written to the file
    succeeded,        \* bag of chunk indices whose Download returned nil
    failed,           \* set of <<index, kind>>: failed fetches
    notified,         \* bag of <<index, bytes>>: Status values sent
    mainLog           \* outcomes of main's steps before the workers start

vars == << chunkSize, concurrencyLevel, size, pcMain, spawned, wg, fileState,
           status, statusClosed, partCount, pc, chunk, off, body, pcAgg, aggS,
           totalDownloaded, complete, allocs, gets, served, writes, succeeded,
           failed, notified, mainLog >>

mainVars == << pcMain, spawned, wg, fileState >>
inputVars == << chunkSize, concurrencyLevel, size >>
aggVars == << pcAgg, aggS, totalDownloaded, complete >>
ghostVars == << allocs, gets, served, writes, succeeded, failed, notified >>

\* ------------------------------------------------------------- helpers

\* start := partCount * chunkSize
ChunkStart(p) == p * chunkSize

\* end := (partCount+1)*chunkSize - 1   (inclusive)
ChunkEnd(p) == (p + 1) * chunkSize - 1

\* Variant: the bound is tested with > instead of >=.
HasWorkInclusive(p) == ~(ChunkStart(p) > size)

\* Variant: the end of the chunk is tested instead of its start.
HasWorkWholeChunk(p) == ~(ChunkEnd(p) >= size)

\* if start >= size { return }
HasWork(p) == ~(ChunkStart(p) >= size)

\* Variant: the bytes the server can return for the chunk are reported.
DownloadedServed(p) == (IF ChunkEnd(p) < size - 1 THEN ChunkEnd(p) ELSE size - 1) - ChunkStart(p) + 1

\* Status{Downloaded: int(end - start + 1)}
Downloaded(p) == ChunkEnd(p) - ChunkStart(p) + 1

Min(a, b) == IF a < b THEN a ELSE b

\* Number of body bytes a server that honours "Range: bytes=start-end"
\* returns: the last byte is min(end, size-1) (HTTP range semantics).
BodyLen(p) == Min(ChunkEnd(p), size - 1) - ChunkStart(p) + 1

\* The body lengths client.Do may bring back for chunk p.  Download looks
\* neither at the status code nor at the length of the response: the body
\* may be empty (an error answer), a part of the range, the range, or more,
\* up to the whole resource (a server that ignores the Range header).
\* Lengths are explored up to MaxSize bytes, besides the range's own.
ServerBodies(p) == {BodyLen(p)} \cup (0 .. Min(size, MaxSize))

\* Variant: the body is written with file.Write, from the file's beginning.
WriteOffsetNoBase(p, n) == n

\* io.NewOffsetWriter(file, int64(start)): the n-th byte written through the
\* writer lands at file offset start + n.
WriteOffset(p, n) == ChunkStart(p) + n

\* The process is running: main has neither returned nor died.
Alive == pcMain \notin {"exited", "fatal", "panic"}

\* Two further inputs, <<size, chunkSize>>: 25 bytes and 10 bytes in chunks
\* of 10.  They are explored with at most one worker.
ScenarioInputs == {<< 25, 10 >>, << 10, 10 >>}

\* The chunk sizes a run may have, and the resource sizes it may have with
\* chunk size cs and conc workers.
ChunkSizes == (1 .. MaxChunk) \cup {in[2] : in \in ScenarioInputs}
SizesFor(cs, conc) ==
    (0 .. MaxSize) \cup
    (IF conc <= 1
     THEN {in[1] : in \in {x \in ScenarioInputs : x[2] = cs}}
     ELSE {})

\* ------------------------------------------------------------- main

\* main, lines 78-85: chunkSize is set and the flags are parsed.
Init ==
    /\ chunkSize \in ChunkSizes
    /\ concurrencyLevel \in 0 .. MaxConc
    /\ size = 0
    /\ pcMain = "exists"
    /\ spawned = 0
    /\ wg = 0
    /\ fileState = "unopened"
    /\ status = << >>
    /\ statusClosed = FALSE
    /\ partCount = 0
    /\ pc = [w \in Workers |-> "unborn"]
    /\ chunk = [w \in Workers |-> NoChunk]
    /\ off = [w \in Workers |-> 0]
    /\ body = [w \in Workers |-> 0]
    /\ pcAgg = "unborn"
    /\ aggS = 0
    /\ totalDownloaded = 0
    /\ complete = 0
    /\ allocs = EmptyBag
    /\ gets = EmptyBag
    /\ served = {}
    /\ writes = EmptyBag
    /\ succeeded = EmptyBag
    /\ failed = {}
    /\ notified = EmptyBag
    /\ mainLog = << >>

\* Exists(name, override): os.Stat finds the file ("present"), reports that
\* it does not exist ("absent"), or fails otherwise ("error").
Exists(stat, override) ==
    IF stat = "present" THEN override
    ELSE IF stat = "absent" THEN TRUE
    ELSE FALSE

\* What main's log keeps of the existence check: whether it passed, and
\* if not, whether the file was there or os.Stat failed.
ExistsOutcome(stat, override) ==
    IF Exists(stat, override) THEN "exists:pass"
    ELSE IF stat = "present" THEN "exists:present" ELSE "exists:error"

\* Variant: the result of Exists is not acted upon.
CheckExistsNoReturn ==
    /\ pcMain = "exists"
    /\ \E stat \in {"present", "absent", "error"}, override \in BOOLEAN :
          /\ pcMain' = "getsize"
          /\ mainLog' = Append(mainLog, ExistsOutcome(stat, override))
    /\ UNCHANGED << inputVars, spawned, wg, fileState, status, statusClosed,
                    partCount, pc, chunk, off, body, aggVars, ghostVars >>

\* main, lines 87-89: if !Exists(name, override) { return }
CheckExists ==
    /\ pcMain = "exists"
    /\ \E stat \in {"present", "absent", "error"}, override \in BOOLEAN :
          /\ pcMain' = IF Exists(stat, override) THEN "getsize" ELSE "exited"
          /\ mainLog' = Append(mainLog, ExistsOutcome(stat, override))
    /\ UNCHANGED << inputVars, spawned, wg, fileState, status, statusClosed,
                    partCount, pc, chunk, off, body, aggVars, ghostVars >>

\* main, lines 91-94 with GetFileSize.  Outcomes of GetFileSize: "ok", a
\* response with a Content-Length that parses (the error of client.Do is
\* never looked at); "badURL", the request cannot be built; "transport",
\* client.Do fails and returns a nil response, whose Header is then read
\* (nil dereference, the process panics); "noLength", the header is absent;
\* "badLength", strconv.ParseUint fails.  main calls log.Fatal on an error.
GetSize ==
    /\ pcMain = "getsize"
    /\ \E outcome \in {"ok", "badURL", "transport", "noLength", "badLength"} :
          /\ mainLog' = Append(mainLog, IF outcome = "ok" THEN "head:ok" ELSE outcome)
          /\ CASE outcome = "ok" ->
                 /\ size' \in SizesFor(chunkSize, concurrencyLevel)
                 /\ pcMain' = "open"
            [] outcome = "transport" ->
                 /\ size' = size
                 /\ pcMain' = "panic"
            [] OTHER ->
                 /\ size' = size
                 /\ pcMain' = "fatal"
    /\ UNCHANGED << chunkSize, concurrencyLevel, spawned, wg, fileState,
                    status, statusClosed, partCount, pc, chunk, off, body, aggVars,
                    ghostVars >>

\* Variant: the error of os.OpenFile is not checked.
OpenFileNoCheck ==
    /\ pcMain = "open"
    /\ \E ok \in BOOLEAN :
          /\ mainLog' = Append(mainLog, IF ok THEN "open:ok" ELSE "open:failed")
          /\ fileState' = IF ok THEN "open" ELSE fileState
          /\ pcMain' = "setup"
    /\ UNCHANGED << inputVars, spawned, wg, status, statusClosed, partCount,
                    pc, chunk, off, body, aggVars, ghostVars >>

\* main, lines 96-100: os.OpenFile(name, O_CREATE|O_WRONLY), log.Fatal on
\* error.
OpenFile ==
    /\ pcMain = "open"
    /\ \E ok \in BOOLEAN :
          /\ mainLog' = Append(mainLog, IF ok THEN "open:ok" ELSE "open:failed")
          /\ IF ok THEN fileState' = "open" /\ pcMain' = "setup"
                   ELSE fileState' = fileState /\ pcMain' = "fatal"
    /\ UNCHANGED << inputVars, spawned, wg, status, statusClosed, partCount,
                    pc, chunk, off, body, aggVars, ghostVars >>

\* main, lines 102-123: the downloaders, the status channel, partCount and
\* the WaitGroup are created and the aggregator goroutine is started.
StartAggregator ==
    /\ pcMain = "setup"
    /\ pcMain' = "spawn"
    /\ pcAgg' = "recv"
    /\ UNCHANGED << mainLog, inputVars, spawned, wg, fileState, status, statusClosed,
                    partCount, pc, chunk, off, body, aggS, totalDownloaded,
                    complete, ghostVars >>

\* Variant: the loop runs while i <= concurrencyLevel.
SpawnWorkerOneMore ==
    /\ pcMain = "spawn"
    /\ spawned <= concurrencyLevel
    /\ spawned < MaxConc
    /\ wg' = wg + 1
    /\ pc' = [pc EXCEPT ![spawned] = "claim"]
    /\ spawned' = spawned + 1
    /\ UNCHANGED << mainLog, inputVars, pcMain, fileState, status, statusClosed,
                    partCount, chunk, off, body, aggVars, ghostVars >>

\* main, lines 125-127: wg.Add(1); go func(i int) {...}(i)
SpawnWorker ==
    /\ pcMain = "spawn"
    /\ spawned < concurrencyLevel
    /\ wg' = wg + 1
    /\ pc' = [pc EXCEPT ![spawned] = "claim"]
    /\ spawned' = spawned + 1
    /\ UNCHANGED << mainLog, inputVars, pcMain, fileState, status, statusClosed,
                    partCount, chunk, off, body, aggVars, ghostVars >>

\* Variant: main does not wait for the workers before its deferred calls.
WaitWorkersNoWait ==
    /\ pcMain = "spawn"
    /\ ~(spawned < concurrencyLevel)
    /\ pcMain' = "closeStatus"
    /\ UNCHANGED << mainLog, inputVars, spawned, wg, fileState, status, statusClosed,
                    partCount, pc, chunk, off, body, aggVars, ghostVars >>

\* main returns; the last deferred call runs first: wg.Wait() (line 114)
\* blocks until the counter is zero.
WaitWorkers ==
    /\ pcMain = "spawn"
    /\ ~(spawned < concurrencyLevel)
    /\ wg = 0
    /\ pcMain' = "closeStatus"
    /\ UNCHANGED << mainLog, inputVars, spawned, wg, fileState, status, statusClosed,
                    partCount, pc, chunk, off, body, aggVars, ghostVars >>

\* deferred close(status), line 110
CloseStatus ==
    /\ pcMain = "closeStatus"
    /\ statusClosed' = TRUE
    /\ pcMain' = "closeFile"
    /\ UNCHANGED << mainLog, inputVars, spawned, wg, fileState, status, partCount, pc,
                    chunk, off, body, aggVars, ghostVars >>

\* deferred file.Close(), line 100
CloseFile ==
    /\ pcMain = "closeFile"
    /\ fileState' = "closed"
    /\ pcMain' = "return"
    /\ UNCHANGED << mainLog, inputVars, spawned, wg, status, statusClosed, partCount,
                    pc, chunk, off, body, aggVars, ghostVars >>

\* main has returned: the process ends, whatever the goroutines were doing.
Exit ==
    /\ pcMain = "return"
    /\ pcMain' = "exited"
    /\ UNCHANGED << mainLog, inputVars, spawned, wg, fileState, status, statusClosed,
                    partCount, pc, chunk, off, body, aggVars, ghostVars >>

\* ------------------------------------------------------------ workers

\* The variables of the loop body (partCount, start, end, the response) end
\* with the iteration or with the goroutine: worker w holds nothing.
DropChunk(w) ==
    /\ chunk' = [chunk EXCEPT ![w] = NoChunk]
    /\ off' = [off EXCEPT ![w] = 0]
    /\ body' = [body EXCEPT ![w] = 0]

\* The claim step with the index p and the new cursor value next: the worker
\* returns (wg.Done) when start >= size and otherwise holds chunk p.
ClaimWith(w, p, next) ==
    /\ Alive
    /\ pc[w] = "claim"
    /\ partCount' = next
    /\ allocs' = allocs (+) SetToBag({<< p, HasWork(p) >>})
    /\ IF HasWork(p)
       THEN /\ chunk' = [chunk EXCEPT ![w] = p]
            /\ off' = [off EXCEPT ![w] = 0]
            /\ pc' = [pc EXCEPT ![w] = "do"]
            /\ wg' = wg
       ELSE /\ chunk' = [chunk EXCEPT ![w] = NoChunk]
            /\ off' = off
            /\ pc' = [pc EXCEPT ![w] = "done"]
            /\ wg' = wg - 1
    /\ UNCHANGED << mainLog, inputVars, pcMain, spawned, fileState, status,
                    statusClosed, body, aggVars, gets, served, writes,
                    succeeded, failed, notified >>

\* Variant: the counter is read and written back in two steps, so a worker
\* may still see the value another worker has just used.
ClaimLostUpdate(w) ==
    \E p \in {partCount, IF partCount > 0 THEN partCount - 1 ELSE 0} :
        ClaimWith(w, p, p + 1)

\* Variant: the "- 1" is forgotten, the new value of the counter is used.
ClaimNewValue(w) == ClaimWith(w, partCount + 1, partCount + 1)

\* Variant: the counter is advanced only when a chunk is handed out.
ClaimNoAdvanceOnRefusal(w) ==
    ClaimWith(w, partCount, IF HasWork(partCount) THEN partCount + 1 ELSE partCount)

\* Lines 131-137: partCount := atomic.AddUint64(&partCount, 1) - 1 is one
\* indivisible step.
Claim(w) == ClaimWith(w, (partCount + 1) - 1, partCount + 1)

\* Variant: a failed client.Do ends the process (log.Fatal).
ClientDoFatal(w) ==
    /\ Alive
    /\ pc[w] = "do"
    /\ gets' = gets (+) SetToBag({chunk[w]})
    /\ \E ok \in BOOLEAN :
          IF ok
          THEN /\ pc' = [pc EXCEPT ![w] = "copy"]
               /\ \E len \in ServerBodies(chunk[w]) :
                     /\ body' = [body EXCEPT ![w] = len]
                     /\ served' = served \cup {<< chunk[w], len >>}
               /\ UNCHANGED << chunk, off, failed, wg, pcMain >>
          ELSE /\ pc' = [pc EXCEPT ![w] = "failed"]
               /\ failed' = failed \cup {<< chunk[w], "do" >>}
               /\ served' = served
               /\ DropChunk(w)
               /\ wg' = wg
               /\ pcMain' = "fatal"
    /\ UNCHANGED << mainLog, inputVars, spawned, fileState, status, statusClosed,
                    partCount, aggVars, allocs, writes, succeeded,
                    notified >>

\* Variant: a failed client.Do is tried again for the same chunk.
ClientDoRetry(w) ==
    /\ Alive
    /\ pc[w] = "do"
    /\ gets' = gets (+) SetToBag({chunk[w]})
    /\ \E ok \in BOOLEAN :
          IF ok
          THEN /\ pc' = [pc EXCEPT ![w] = "copy"]
               /\ \E len \in ServerBodies(chunk[w]) :
                     /\ body' = [body EXCEPT ![w] = len]
                     /\ served' = served \cup {<< chunk[w], len >>}
               /\ UNCHANGED << chunk, off, failed, wg >>
          ELSE /\ pc' = pc
               /\ failed' = failed \cup {<< chunk[w], "do" >>}
               /\ UNCHANGED << chunk, off, body, served >>
               /\ wg' = wg
    /\ UNCHANGED << mainLog, inputVars, pcMain, spawned, fileState, status,
                    statusClosed, partCount, aggVars, allocs, writes,
                    succeeded, notified >>

\* Variant: wg.Done is not deferred and is left out on the error return.
ClientDoNoDone(w) ==
    /\ Alive
    /\ pc[w] = "do"
    /\ gets' = gets (+) SetToBag({chunk[w]})
    /\ \E ok \in BOOLEAN :
          IF ok
          THEN /\ pc' = [pc EXCEPT ![w] = "copy"]
               /\ \E len \in ServerBodies(chunk[w]) :
                     /\ body' = [body EXCEPT ![w] = len]
                     /\ served' = served \cup {<< chunk[w], len >>}
               /\ UNCHANGED << chunk, off, failed, wg >>
          ELSE /\ pc' = [pc EXCEPT ![w] = "failed"]
               /\ failed' = failed \cup {<< chunk[w], "do" >>}
               /\ served' = served
               /\ DropChunk(w)
               /\ wg' = wg
    /\ UNCHANGED << mainLog, inputVars, pcMain, spawned, fileState, status,
                    statusClosed, partCount, aggVars, allocs, writes,
                    succeeded, notified >>

\* Lines 139-148 and Download, lines 30-35: the request is built (the URL
\* was already accepted by GetFileSize), the Range header is set, the offset
\* writer is created and client.Do runs; on error the worker returns.
ClientDo(w) ==
    /\ Alive
    /\ pc[w] = "do"
    /\ gets' = gets (+) SetToBag({chunk[w]})
    /\ \E ok \in BOOLEAN :
          IF ok
          THEN /\ pc' = [pc EXCEPT ![w] = "copy"]
               /\ \E len \in ServerBodies(chunk[w]) :
                     /\ body' = [body EXCEPT ![w] = len]
                     /\ served' = served \cup {<< chunk[w], len >>}
               /\ UNCHANGED << chunk, off, failed, wg >>
          ELSE /\ pc' = [pc EXCEPT ![w] = "failed"]
               /\ failed' = failed \cup {<< chunk[w], "do" >>}
               /\ served' = served
               /\ DropChunk(w)
               /\ wg' = wg - 1
    /\ UNCHANGED << mainLog, inputVars, pcMain, spawned, fileState, status,
                    statusClosed, partCount, aggVars, allocs, writes,
                    succeeded, notified >>

\* Download, line 37: io.Copy reads the body until its end, however long
\* it is, and writes it through the offset writer, which puts byte number
\* off of the body at file offset start + off.  A write to a closed file
\* fails.
CopyWrite(w) ==
    /\ Alive
    /\ pc[w] = "copy"
    /\ off[w] < body[w]
    /\ IF fileState = "open"
       THEN /\ writes' = writes (+) SetToBag({<< WriteOffset(chunk[w], off[w]), chunk[w] >>})
            /\ off' = [off EXCEPT ![w] = off[w] + 1]
            /\ UNCHANGED << pc, failed, wg, chunk, body >>
       ELSE /\ pc' = [pc EXCEPT ![w] = "failed"]
            /\ failed' = failed \cup {<< chunk[w], "closed" >>}
            /\ wg' = wg - 1
            /\ DropChunk(w)
            /\ writes' = writes
    /\ UNCHANGED << mainLog, inputVars, pcMain, spawned, fileState, status,
                    statusClosed, partCount, aggVars, allocs, gets, served,
                    succeeded, notified >>

\* Variant: the error of Download is not checked, the worker goes on to the
\* status send.
CopyFailStillSends(w) ==
    /\ Alive
    /\ pc[w] = "copy"
    /\ pc' = [pc EXCEPT ![w] = "send"]
    /\ failed' = failed \cup {<< chunk[w], "copy" >>}
    /\ UNCHANGED << mainLog, inputVars, pcMain, spawned, wg, fileState, status,
                    statusClosed, partCount, chunk, off, body, aggVars, allocs,
                    gets, served, writes, succeeded, notified >>

\* Download, lines 37-38 and main, lines 149-152: reading the body fails at
\* any point of the copy; Download returns the error and the worker returns.
CopyFail(w) ==
    /\ Alive
    /\ pc[w] = "copy"
    /\ pc' = [pc EXCEPT ![w] = "failed"]
    /\ failed' = failed \cup {<< chunk[w], "copy" >>}
    /\ wg' = wg - 1
    /\ DropChunk(w)
    /\ UNCHANGED << mainLog, inputVars, pcMain, spawned, fileState, status,
                    statusClosed, partCount, aggVars, allocs, gets, served,
                    writes, succeeded, notified >>

\* Variant: an error while reading the body is taken for its end.
CopyDoneShort(w) ==
    /\ Alive
    /\ pc[w] = "copy"
    /\ pc' = [pc EXCEPT ![w] = "send"]
    /\ succeeded' = succeeded (+) SetToBag({chunk[w]})
    /\ UNCHANGED << mainLog, inputVars, mainVars, status, statusClosed, partCount,
                    chunk, off, body, aggVars, allocs, gets, served, writes, failed,
                    notified >>

\* Download, lines 37-38: the body has ended, io.Copy and Download return
\* nil; the number of bytes copied is dropped and the length of the body is
\* not compared with the range.
CopyDone(w) ==
    /\ Alive
    /\ pc[w] = "copy"
    /\ off[w] = body[w]
    /\ pc' = [pc EXCEPT ![w] = "send"]
    /\ succeeded' = succeeded (+) SetToBag({chunk[w]})
    /\ UNCHANGED << mainLog, inputVars, mainVars, status, statusClosed, partCount,
                    chunk, off, body, aggVars, allocs, gets, served, writes, failed,
                    notified >>

\* Variant: the send never blocks, the channel takes any number of values.
SendStatusNoBlock(w) ==
    /\ Alive
    /\ pc[w] = "send"
    /\ ~statusClosed
    /\ status' = Append(status, Downloaded(chunk[w]))
    /\ notified' = notified (+) SetToBag({<< chunk[w], Downloaded(chunk[w]) >>})
    /\ pc' = [pc EXCEPT ![w] = "claim"]
    /\ DropChunk(w)
    /\ UNCHANGED << mainLog, inputVars, pcMain, spawned, wg, fileState,
                    statusClosed, partCount, aggVars, allocs, gets, served,
                    writes, succeeded, failed >>

\* Line 153: status <- Status{Downloaded: int(end - start + 1)}.  The send
\* blocks while the buffer is full; a send on a closed channel panics.
SendStatus(w) ==
    /\ Alive
    /\ pc[w] = "send"
    /\ IF statusClosed
       THEN /\ pcMain' = "panic"
            /\ UNCHANGED << status, pc, notified, chunk, off, body >>
       ELSE /\ Len(status) < StatusCap
            /\ status' = Append(status, Downloaded(chunk[w]))
            /\ notified' = notified (+) SetToBag({<< chunk[w], Downloaded(chunk[w]) >>})
            /\ pc' = [pc EXCEPT ![w] = "claim"]
            /\ DropChunk(w)
            /\ pcMain' = pcMain
    /\ UNCHANGED << mainLog, inputVars, spawned, wg, fileState, statusClosed,
                    partCount, aggVars, allocs, gets, served, writes,
                    succeeded, failed >>

\* --------------------------------------------------------- aggregator

\* Line 118: for s := range status takes the next Status out of the
\* channel, which leaves room for the next send.
AggReceive ==
    /\ Alive
    /\ pcAgg = "recv"
    /\ Len(status) > 0
    /\ aggS' = Head(status)
    /\ status' = Tail(status)
    /\ pcAgg' = "add"
    /\ UNCHANGED << mainLog, inputVars, mainVars, statusClosed, partCount, pc,
                    chunk, off, body, totalDownloaded, complete, ghostVars >>

\* Lines 119-120: totalDownloaded += s.Downloaded, the percentage is
\* printed and the loop goes back to the receive.
AggAdd ==
    /\ Alive
    /\ pcAgg = "add"
    /\ totalDownloaded' = totalDownloaded + aggS
    /\ aggS' = 0
    /\ pcAgg' = "recv"
    /\ UNCHANGED << mainLog, inputVars, mainVars, status, statusClosed,
                    partCount, pc, chunk, off, body, complete, ghostVars >>

\* Lines 121-122: the channel is closed and drained, the loop ends and
\* "Download complete" is printed.
AggComplete ==
    /\ Alive
    /\ pcAgg = "recv"
    /\ Len(status) = 0
    /\ statusClosed
    /\ pcAgg' = "done"
    /\ complete' = complete + 1
    /\ UNCHANGED << mainLog, inputVars, mainVars, status, statusClosed,
                    partCount, pc, chunk, off, body, aggS, totalDownloaded,
                    ghostVars >>

\* ------------------------------------------------------ specification

Next ==
    \/ CheckExists
    \/ GetSize
    \/ OpenFile
    \/ StartAggregator
    \/ SpawnWorker
    \/ WaitWorkers
    \/ CloseStatus
    \/ CloseFile
    \/ Exit
    \/ \E w \in Workers : Claim(w)
    \/ \E w \in Workers : ClientDo(w)
    \/ \E w \in Workers : CopyWrite(w)
    \/ \E w \in Workers : CopyFail(w)
    \/ \E w \in Workers : CopyDone(w)
    \/ \E w \in Workers : SendStatus(w)
    \/ AggReceive
    \/ AggAdd
    \/ AggComplete

Spec == Init /\ [][Next]_vars

\* The Go scheduler runs some goroutine as long as one of them can take a
\* step, and every HTTP call is assumed to return: the program does not stop
\* while a step is possible.
FairSpec == Spec /\ WF_vars(Next)

\* ---------------------------------------------------- derived notions

\* The chunk indices issued with ok = true, and those refused.
IssuedIdx == {a[1] : a \in {b \in BagToSet(allocs) : b[2]}}
RefusedIdx == {a[1] : a \in {b \in BagToSet(allocs) : ~b[2]}}
Exhausted == RefusedIdx # {}

\* The inclusive byte range of chunk p.
Range(p) == << ChunkStart(p), ChunkEnd(p) >>
IssuedRanges == {Range(p) : p \in IssuedIdx}

\* Workers that hold a chunk.
Holding(w) == pc[w] \in {"do", "copy", "send"}

\* The workers that were started, and whether all of them have returned.
\* AllStarted: main has come to the worker-start loop (the aggregator is
\* started right before it) and the loop has ended.
Started == {w \in Workers : pc[w] # "unborn"}
Terminated(w) == pc[w] \in {"done", "failed"}
AllStarted == /\ pcAgg # "unborn"
              /\ pcMain \in {"spawn", "closeStatus", "closeFile", "return", "exited"}
              /\ spawned = concurrencyLevel
AllDone == AllStarted /\ \A w \in Started : Terminated(w)

\* The worker loop, lines 129-154, run by one worker alone with no fetch
\* failing: the ranges it is issued from cursor on, added to acc.
RECURSIVE SingleWorkerRun(_, _)
SingleWorkerRun(cursor, acc) ==
    IF HasWork(cursor)
    THEN SingleWorkerRun(cursor + 1, acc \cup {<< ChunkStart(cursor), ChunkEnd(cursor) >>})
    ELSE acc

\* The sum of the byte counts of a bag of <<index, bytes>> notifications.
RECURSIVE SumBytes(_, _)
SumBytes(B, S) ==
    IF S = {} THEN 0
    ELSE LET e == CHOOSE x \in S : TRUE
         IN  e[2] * CopiesIn(e, B) + SumBytes(B, S \ {e})
NotifiedBytes == SumBytes(notified, BagToSet(notified))

\* The file offsets written so far.
WrittenOffsets == {e[1] : e \in BagToSet(writes)}

\* The bytes of [0, size) that lie in the range of chunk p, and the bytes of
\* [0, size) not written so far.
RangeBytes(p) == {b \in 0 .. (size - 1) : ChunkStart(p) <= b /\ b <= ChunkEnd(p)}
Unwritten == (0 .. (size - 1)) \ WrittenOffsets

\* The file offsets the response body of length len for chunk p goes to.
BodyOffsets(p, len) == {WriteOffset(p, n) : n \in 0 .. (len - 1)}

\* Every response so far carried the requested range, cut at size-1; every
\* response so far was no longer than the requested span.
RangeHonoured == \A b \in served : b[2] = BodyLen(b[1])
WithinSpan == \A b \in served : b[2] <= Downloaded(b[1])

\* ceil(size / chunkSize) - 1
LastIndex == ((size + chunkSize - 1) \div chunkSize) - 1

\* ------------------------------------------------------------ claims

\* C1: no two allocation requests ever receive the same chunk index, and
\* no two workers ever hold the same chunk (hence the same byte range).
C1_UniqueIndex ==
    /\ \A a \in BagToSet(allocs) : CopiesIn(a, allocs) = 1
    /\ IssuedIdx \cap RefusedIdx = {}
    /\ BagCardinality(allocs) = partCount
    /\ \A v, w \in Workers :
          (v # w /\ Holding(v) /\ Holding(w)) =>
              /\ chunk[v] # chunk[w]
              /\ Range(chunk[v]) # Range(chunk[w])

\* Three workers hold three different chunks at the same time.
C1_Witness ==
    /\ \A w \in 0 .. 2 : Holding(w)
    /\ partCount = 3

\* C2: once the allocator has signalled no-more-work, the indices issued
\* are exactly 0 .. ceil(size/chunkSize) - 1, each with range
\* [index*chunkSize, index*chunkSize + chunkSize - 1]; the ranges are
\* pairwise disjoint and cover [0, size).  Before that the issued indices
\* are a part of 0 .. ceil(size/chunkSize) - 1, and the indices handed out
\* are always 0, 1, 2, ... without a gap.  Size 25 in chunks of 10
\* gives [0,9], [10,19], [20,29]; size 10 in chunks of 10 gives [0,9].
C2_AllocationSequence ==
    /\ IssuedIdx \subseteq 0 .. LastIndex
    /\ IssuedIdx \cup RefusedIdx = 0 .. (partCount - 1)
    /\ Exhausted =>
          /\ IssuedIdx = 0 .. LastIndex
          /\ IssuedRanges =
                {<< i * chunkSize, i * chunkSize + chunkSize - 1 >> : i \in 0 .. LastIndex}
          /\ \A b \in 0 .. (size - 1) :
                Cardinality({r \in IssuedRanges : r[1] <= b /\ b <= r[2]}) = 1
          /\ \A q, r \in IssuedRanges : q # r => (q[2] < r[1] \/ r[2] < q[1])
          /\ (size = 25 /\ chunkSize = 10) =>
                IssuedRanges = {<< 0, 9 >>, << 10, 19 >>, << 20, 29 >>}
          /\ (size = 10 /\ chunkSize = 10) => IssuedRanges = {<< 0, 9 >>}

\* The run with size 25 and chunk size 10 has exhausted the allocator.
C2_Witness ==
    /\ size = 25 /\ chunkSize = 10
    /\ Exhausted
    /\ Cardinality(IssuedRanges) = 3

\* C3: when no worker fails, the set of ranges issued to N >= 1 concurrent
\* workers, under any interleaving, is the set issued to a single worker
\* for the same size and chunk size.
C3_SameRangesAsOneWorker ==
    (AllDone /\ concurrencyLevel >= 1 /\ failed = {}) =>
        IssuedRanges = SingleWorkerRun(0, {})

\* Three workers have shared three chunks and all have returned.
C3_Witness ==
    /\ AllDone /\ concurrencyLevel = 3 /\ failed = {}
    /\ Cardinality(IssuedRanges) = 3
    /\ BagCardinality(notified) = 3

\* C4 (as claimed): if no fetch fails, the byte counts of all notifications
\* sent during the run add up to the resource size.
C4_SumEqualsSize ==
    (AllDone /\ concurrencyLevel >= 1 /\ failed = {}) => NotifiedBytes = size

\* C5 (as claimed): the bytes written to the file by different chunk
\* fetches are disjoint: every written offset lies in the range of the chunk
\* it was written for, that chunk was issued, and no offset is written
\* twice.
C5_DisjointWrites ==
    /\ \A e \in BagToSet(writes) :
          /\ CopiesIn(e, writes) = 1
          /\ e[2] \in IssuedIdx
          /\ ChunkStart(e[2]) <= e[1] /\ e[1] <= ChunkEnd(e[2])
    /\ \A e, f \in BagToSet(writes) : e[1] = f[1] => e[2] = f[2]

\* C5 (amended): as long as no response body is longer than the span its
\* request asked for, every written offset lies in the range of the issued
\* chunk it was written for and no offset is written twice; a worker that
\* copies has written the first off bytes of its range.
C5_DisjointWritesWithinSpan ==
    WithinSpan =>
        /\ \A e \in BagToSet(writes) :
              /\ CopiesIn(e, writes) = 1
              /\ e[2] \in IssuedIdx
              /\ ChunkStart(e[2]) <= e[1] /\ e[1] <= ChunkEnd(e[2])
        /\ \A e, f \in BagToSet(writes) : e[1] = f[1] => e[2] = f[2]
        /\ \A w \in Workers :
              pc[w] = "copy" =>
                  \A n \in 0 .. (off[w] - 1) :
                      << ChunkStart(chunk[w]) + n, chunk[w] >> \in BagToSet(writes)

\* Two workers are both in the middle of writing their chunks.
C5_Witness ==
    \E v, w \in Workers :
        /\ WithinSpan
        /\ v # w
        /\ pc[v] = "copy" /\ pc[w] = "copy"
        /\ off[v] > 0 /\ off[w] > 0
        /\ chunk[v] > 0 /\ chunk[w] > 0

\* C6: a failure in one worker terminates only that worker.  The process
\* is never ended once workers run; every failed fetch has ended exactly one
\* worker; a worker returns without an error only after the allocator has
\* refused a request; and when all workers have returned and at least one
\* of them did not fail, every chunk 0 .. ceil(size/chunkSize) - 1 has been
\* claimed.
C6_FailureIsLocal ==
    /\ pcMain \in {"fatal", "panic"} => (spawned = 0 /\ partCount = 0)
    /\ Cardinality({w \in Workers : pc[w] = "failed"}) = Cardinality(failed)
    /\ \A w \in Workers : pc[w] = "done" => Exhausted
    /\ (AllDone /\ \E w \in Started : pc[w] = "done") =>
          IssuedIdx = 0 .. LastIndex

\* Three workers, three chunks: the GET of one chunk failed, the other two
\* workers drained the allocator and returned.
C6_Witness ==
    /\ AllDone /\ concurrencyLevel = 3
    /\ Cardinality(failed) = 1
    /\ \E f \in failed : f[2] = "do" /\ f[1] = 0
    /\ Cardinality({w \in Workers : pc[w] = "done"}) = 2
    /\ IssuedIdx = 0 .. 2
    /\ BagCardinality(notified) = 2

\* C7: a chunk whose fetch failed is never issued again, never fetched
\* again and never notified: its index was issued once, one GET was made
\* for it, no worker holds it, and no notification carries it.
C7_NoReissue ==
    \A f \in failed :
        /\ CopiesIn(<< f[1], TRUE >>, allocs) = 1
        /\ CopiesIn(f[1], gets) = 1
        /\ CopiesIn(f[1], succeeded) = 0
        /\ \A n \in BagToSet(notified) : n[1] # f[1]
        /\ \A w \in Workers : Holding(w) => chunk[w] # f[1]
        /\ partCount > f[1]

\* Chunk 0 failed, later chunks were fetched and notified, the run is over.
C7_Witness ==
    /\ AllDone
    /\ \E f \in failed : f[1] = 0
    /\ \E n \in BagToSet(notified) : n[1] = 2
    /\ partCount > 3

\* C8 (as claimed): at the end of a run in which one chunk fetch failed and
\* another worker survived, the unwritten bytes of [0, size) are exactly the
\* failed chunk's range.
C8_GapIsFailedRange ==
    (AllDone /\ Cardinality(failed) = 1 /\ \E w \in Started : pc[w] = "done") =>
        \A f \in failed : Unwritten = RangeBytes(f[1])

\* C8 (amended): in such a run, when every response carried the requested
\* range, every other chunk is fully written and the unwritten bytes lie in
\* the failed chunk's range; they are the whole range when client.Do failed,
\* and the part of the range from the first byte not yet copied when the
\* body copy failed.
C8_GapWithinFailedRange ==
    (/\ AllDone /\ Cardinality(failed) = 1 /\ \E w \in Started : pc[w] = "done"
     /\ RangeHonoured) =>
        \A f \in failed :
            /\ Unwritten \subseteq RangeBytes(f[1])
            /\ f[2] = "do" => Unwritten = RangeBytes(f[1])
            /\ f[2] = "copy" =>
                  \E n \in 0 .. BodyLen(f[1]) :
                      Unwritten = {b \in RangeBytes(f[1]) : b >= ChunkStart(f[1]) + n}

\* The copy of a chunk failed after its first byte: the byte stays written.
C8_Witness ==
    /\ AllDone /\ \E w \in Started : pc[w] = "done"
    /\ failed = {<< 0, "copy" >>}
    /\ chunkSize = 2 /\ size > 2
    /\ RangeHonoured
    /\ Unwritten = {1}

\* The chunks successfully written: Download returned nil and the bytes of
\* the chunk's range (up to size-1) are all in the file.
WrittenChunks == {p \in BagToSet(succeeded) : RangeBytes(p) \subseteq WrittenOffsets}

\* C9 (as claimed): a notification is sent once for each chunk that was
\* successfully written and for no other chunk; there are never more
\* notifications than chunks successfully written, and as many once all
\* workers have returned.
C9_NotifiedIsWritten ==
    /\ \A n \in BagToSet(notified) :
          /\ CopiesIn(n, notified) = 1
          /\ n[1] \in WrittenChunks
    /\ BagCardinality(notified) <= Cardinality(WrittenChunks)
    /\ AllDone => BagCardinality(notified) = Cardinality(WrittenChunks)

\* C9 (amended): a notification is sent once for each chunk whose Download
\* returned nil, that is whose response body, whatever its length, was
\* copied to the file to its end, and for no other chunk; there are never
\* more notifications than such chunks, and as many once all workers have
\* returned.  The chunk's range is all written when the body was the range.
C9_OneNotificationPerSuccess ==
    /\ BagCardinality(notified) <= BagCardinality(succeeded)
    /\ \A n \in BagToSet(notified) :
          /\ CopiesIn(n, notified) = 1
          /\ \A m \in BagToSet(notified) : m[1] = n[1] => m = n
          /\ CopiesIn(n[1], succeeded) = 1
          /\ n[1] \in IssuedIdx
          /\ \A f \in failed : f[1] # n[1]
          /\ \E b \in served :
                /\ b[1] = n[1]
                /\ BodyOffsets(n[1], b[2]) \subseteq WrittenOffsets
                /\ b[2] = BodyLen(n[1]) => RangeBytes(n[1]) \subseteq WrittenOffsets
    /\ AllDone =>
          /\ BagCardinality(notified) = BagCardinality(succeeded)
          /\ {n[1] : n \in BagToSet(notified)} = BagToSet(succeeded)

\* Two chunks were notified, one of them with a body shorter than its
\* range, a third failed, and the worker has returned.
C9_Witness ==
    /\ AllDone
    /\ BagCardinality(notified) = 2
    /\ failed # {}
    /\ \E n \in BagToSet(notified), b \in served :
          b[1] = n[1] /\ b[2] < BodyLen(n[1])

\* C10: the status channel is closed only after every worker has returned,
\* and the file is closed only after the channel; no worker sends on the
\* closed channel (no panic once workers run) and no write meets a closed
\* file.
C10_ShutdownOrder ==
    /\ statusClosed => AllDone
    /\ fileState = "closed" => statusClosed
    /\ \A w \in Started :
          ~Terminated(w) => (fileState = "open" /\ ~statusClosed)
    /\ pcMain = "panic" => spawned = 0
    /\ \A f \in failed : f[2] # "closed"

\* The file is closed after three workers fetched chunks and returned.
C10_Witness ==
    /\ fileState = "closed" /\ statusClosed
    /\ concurrencyLevel = 3
    /\ BagCardinality(notified) = 3

\* What main's log says: the existence check refused the run, size
\* resolution failed, opening the file failed.
LogHas(e) == \E i \in 1 .. Len(mainLog) : mainLog[i] = e
GateRefused == LogHas("exists:present") \/ LogHas("exists:error")
SizeFailed == \E e \in {"badURL", "transport", "noLength", "badLength"} : LogHas(e)
OpenFailed == LogHas("open:failed")

\* No worker was started and nothing was allocated, fetched or notified.
NoWorkDone ==
    /\ spawned = 0 /\ Started = {}
    /\ partCount = 0 /\ allocs = EmptyBag
    /\ gets = EmptyBag /\ writes = EmptyBag
    /\ notified = EmptyBag /\ status = << >>

\* C11 (as claimed): when the process has ended after main closed the
\* status channel, the aggregator has printed "Download complete" exactly
\* once.
C11_CompleteBeforeExit ==
    (pcMain = "exited" /\ statusClosed) => complete = 1

\* C13: when size resolution fails (bad URL, transport error, missing or
\* unparsable Content-Length) or opening the file fails, the process ends
\* there: no worker is started, no chunk is allocated, no GET is made and no
\* notification is sent; after a failed size resolution the file is not
\* opened and os.OpenFile is not even called.
C13_AbortBeforeWorkers ==
    /\ (SizeFailed \/ OpenFailed) =>
          /\ pcMain \in {"fatal", "panic"}
          /\ NoWorkDone
          /\ pcAgg = "unborn"
          /\ fileState = "unopened"
    /\ SizeFailed =>
          /\ Len(mainLog) = 2
          /\ ~LogHas("open:ok") /\ ~LogHas("open:failed")

\* Size resolution has failed for want of a Content-Length header.
C13_Witness ==
    /\ mainLog = << "exists:pass", "noLength" >>
    /\ pcMain = "fatal"

\* C14: when the destination exists and override is false (or os.Stat fails
\* otherwise), main returns at once: no HEAD request, no open, no allocation,
\* no worker, no GET, and nothing is written to the file.
C14_GateStopsRun ==
    GateRefused =>
        /\ pcMain = "exited"
        /\ Len(mainLog) = 1
        /\ fileState = "unopened"
        /\ ~statusClosed
        /\ pcAgg = "unborn"
        /\ NoWorkDone

\* The file was there and override was not set: main has returned.
C14_Witness ==
    /\ mainLog = << "exists:present" >>
    /\ pcMain = "exited"

\* C15 (as claimed): when the process ends, the aggregator's running total
\* is the sum of the byte counts of all notifications the workers sent, and
\* no notification is left in the channel.
C15_AllConsumedAtExit ==
    pcMain = "exited" =>
        /\ totalDownloaded = NotifiedBytes
        /\ status = << >>

\* The chunks claimed for which no Download has returned nil.
Incomplete == IssuedIdx \ BagToSet(succeeded)
WorkersAt(states) == {w \in Workers : pc[w] \in states}

\* C16: the cursor advances by one on every allocation request, refused
\* ones included: it equals the number of requests made, and the indices
\* handed out are exactly 0 .. cursor-1, each once.
C16_CursorCountsRequests ==
    /\ partCount = BagCardinality(allocs)
    /\ {a[1] : a \in BagToSet(allocs)} = 0 .. (partCount - 1)
    /\ Cardinality(BagToSet(allocs)) = partCount
    /\ partCount = Cardinality(IssuedIdx) + Cardinality(WorkersAt({"done"}))

\* Three workers were refused after all chunks were issued: the cursor
\* stands three past the number of chunks.
C16_Witness ==
    /\ size = 3 /\ chunkSize = 2
    /\ Cardinality(WorkersAt({"done"})) = 3
    /\ partCount = 5

\* C17: a request is refused exactly when index*chunkSize >= size; every
\* index issued is below every index refused, so that after a refusal no
\* request is granted any more; a refused request ends its worker, and no
\* GET, write or notification is made for a refused index.
C17_ExhaustionIsPermanent ==
    /\ \A a \in BagToSet(allocs) : a[2] = ~(a[1] * chunkSize >= size)
    /\ \A p \in IssuedIdx, q \in RefusedIdx : p < q
    /\ Cardinality(RefusedIdx) = Cardinality(WorkersAt({"done"}))
    /\ \A w \in WorkersAt({"done"}) : chunk[w] = NoChunk
    /\ \A q \in RefusedIdx :
          /\ CopiesIn(q, gets) = 0
          /\ CopiesIn(q, succeeded) = 0
          /\ \A n \in BagToSet(notified) : n[1] # q
          /\ \A e \in BagToSet(writes) : e[2] # q

\* Two workers were refused one after the other while the third still
\* fetches the last chunk.
C17_Witness ==
    /\ Cardinality(RefusedIdx) = 2
    /\ Cardinality(WorkersAt({"copy"})) = 1
    /\ IssuedIdx # {}

\* C18: the status channel never holds more than its capacity of 1; every
\* chunk fetched but not yet notified belongs to a worker still waiting at
\* its send, so no worker claims a chunk before its notification is in the
\* channel; and what was sent is what was added to the total, plus the value
\* the aggregator has just received, plus what is buffered.
C18_Backpressure ==
    /\ Len(status) <= StatusCap
    /\ StatusCap = 1
    /\ BagCardinality(succeeded) - BagCardinality(notified)
          = Cardinality(WorkersAt({"send"}))
    /\ \A w \in WorkersAt({"send"}) :
          \A n \in BagToSet(notified) : n[1] # chunk[w]
    /\ NotifiedBytes = totalDownloaded + aggS + Len(status) * chunkSize
    /\ pcAgg # "add" => aggS = 0

\* The channel is full and two workers wait to send.
C18_Witness ==
    /\ Len(status) = StatusCap
    /\ Cardinality(WorkersAt({"send"})) = 2

\* C19: every Status carries end - start + 1 = chunkSize, also for the last
\* chunk when its end lies past size-1, whatever was written; the
\* aggregator's total is a multiple of chunkSize.
C19_NominalSpan ==
    /\ \A n \in BagToSet(notified) :
          /\ n[2] = ChunkEnd(n[1]) - ChunkStart(n[1]) + 1
          /\ n[2] = chunkSize
    /\ \A i \in 1 .. Len(status) : status[i] = chunkSize
    /\ totalDownloaded % chunkSize = 0
    /\ totalDownloaded <= BagCardinality(notified) * chunkSize

\* The last chunk of a size that is no multiple of chunkSize was notified
\* and received: the total exceeds the size.
C19_Witness ==
    /\ size = 3 /\ chunkSize = 2
    /\ << 1, 2 >> \in BagToSet(notified)
    /\ totalDownloaded = 4

\* C20: exactly concurrencyLevel workers are started, numbered from 0; a
\* failed fetch ends its worker; the chunks claimed and not completed are
\* those being fetched and those that failed, at most concurrencyLevel of
\* them, and at the end of the run they are the failed ones; when every
\* worker has failed no request was refused and the indices from the cursor
\* on were never issued.
C20_WorkerBudget ==
    /\ Started = 0 .. (spawned - 1)
    /\ spawned <= concurrencyLevel
    /\ AllStarted => Cardinality(Started) = concurrencyLevel
    /\ wg = Cardinality(Started) - Cardinality(WorkersAt({"done", "failed"}))
    /\ Cardinality(failed) = Cardinality(WorkersAt({"failed"}))
    /\ Cardinality(Incomplete)
          = Cardinality(WorkersAt({"do", "copy"})) + Cardinality(failed)
    /\ Cardinality(Incomplete) <= concurrencyLevel
    /\ AllDone => Incomplete = {f[1] : f \in failed}
    /\ (AllDone /\ concurrencyLevel >= 1 /\ WorkersAt({"failed"}) = Started) =>
          /\ RefusedIdx = {}
          /\ IssuedIdx = 0 .. (partCount - 1)
          /\ \A p \in partCount .. LastIndex : CopiesIn(p, gets) = 0

\* Two workers, three chunks: both workers failed on their first chunk and
\* the third chunk was never issued.
C20_Witness ==
    /\ AllDone /\ concurrencyLevel = 2
    /\ WorkersAt({"failed"}) = {0, 1}
    /\ LastIndex = 2
    /\ IssuedIdx = {0, 1}

\* The run is over: the process has ended, and if workers were started
\* they have all returned, the channel and the file are closed and main has
\* returned.
RunEnded ==
    /\ ~Alive
    /\ \A w \in Started : Terminated(w)
    /\ \A w \in Workers : pc[w] # "send"
    /\ spawned > 0 => (pcMain = "exited" /\ wg = 0 /\ statusClosed)

\* C12: under fair scheduling, with every HTTP call returning, the run
\* ends: every started worker returns (none stays blocked at the full
\* channel), main's wait for the workers returns and the process ends, for
\* every worker count and size of the bounds (also more workers than chunks,
\* and size 0).
C12_Terminates == <>RunEnded

\* Three workers and two chunks: a worker waited at the full channel, one
\* fetch failed, and the process has ended.
C12_Witness ==
    /\ pcMain = "exited"
    /\ concurrencyLevel = 3 /\ LastIndex = 1
    /\ Cardinality(WorkersAt({"done"})) = 2
    /\ Cardinality(failed) = 1
    /\ BagCardinality(notified) = 1

====
